---- MODULE Spec2Model ----
(***************************************************************************)
(* A model of script.py, the Uniqlo sale checker: the link transformer     *)
(* convert_to_app_link, the notifier send_telegram_notification, the page  *)
(* extractor check_specific_item_price_selenium and the orchestrator main. *)
(*                                                                         *)
(* Python strings that the code inspects character by character (URLs,     *)
(* price texts) are sequences of one-character strings, so that re.search  *)
(* and str.strip are computed and not assumed.  The browser and the        *)
(* Telegram endpoint are the environment: each call of the extractor draws *)
(* a page outcome, each POST draws a delivery outcome.                     *)
(***************************************************************************)
EXTENDS Integers, Sequences, FiniteSets, TLC

VARIABLES
    PRODUCT_URLS,        \* configuration: the ordered list of product URLs
    TELEGRAM_BOT_TOKEN,  \* configuration
    TELEGRAM_CHAT_ID,    \* configuration
    pc,                  \* main's position
    i,                   \* main's loop index (0-based, as enumerate gives it)
    sale_items,          \* main's list of sale-flagged snapshots
    driver,              \* the browser session: "none", "acquired", "released"
    page,                \* extractor harness: what the browser does for the call
    item_details,        \* what the latest extractor call returned
    raised,              \* the step at which the latest extractor call raised
    returned,            \* history: every snapshot returned so far, in call order
    calls,               \* history: the messages given to send_telegram_notification
    posts,               \* history: the HTTP POSTs issued
    response,            \* the outcome of the latest POST
    log,                 \* the console: one tag per print statement executed
    web_url,             \* link transformer harness: the input string
    link_out,            \* convert_to_app_link(web_url)
    link_out2,           \* convert_to_app_link(link_out)
    lpc                  \* link transformer harness position

vars == <<PRODUCT_URLS, TELEGRAM_BOT_TOKEN, TELEGRAM_CHAT_ID, pc, i, sale_items,
          driver, page, item_details, raised, returned, calls, posts, response,
          log, web_url, link_out, link_out2, lpc>>

mainVars == <<PRODUCT_URLS, TELEGRAM_BOT_TOKEN, TELEGRAM_CHAT_ID, pc, i, sale_items,
              driver, page, item_details, raised, returned, calls, posts,
              response, log>>

linkVars == <<web_url, link_out, link_out2, lpc>>

----------------------------------------------------------------------------
(* Bounds of the model.                                                    *)

MaxUrls == 2         \* PRODUCT_URLS has at most this many entries
MaxPriceElems == 3   \* a page shows at most this many price elements
MaxSegs == 2         \* a link transformer input is at most this many segments

SeqsUpTo(S, n) == UNION {[1..k -> S] : k \in 0..n}

----------------------------------------------------------------------------
(* Link transformer.                                                       *)

Digits == {"0", "1", "2", "3", "4", "5", "6", "7", "8", "9"}

UpperLetters == {"A", "B", "C", "D", "E", "F", "G", "H", "I", "J", "K", "L", "M",
                 "N", "O", "P", "Q", "R", "S", "T", "U", "V", "W", "X", "Y", "Z"}

\* the f-string prefix "https://s.uniqlo.com/id/en/product/"
DeepLinkPrefix ==
    <<"h", "t", "t", "p", "s", ":", "/", "/", "s", ".", "u", "n", "i", "q", "l",
      "o", ".", "c", "o", "m", "/", "i", "d", "/", "e", "n", "/", "p", "r", "o",
      "d", "u", "c", "t", "/">>

\* the length of a match of E\d{6}-\d{3}
IdLen == 11

\* a mutant: the pattern accepts any uppercase letter in front
MatchAtAnyUpper(s, p) ==
    /\ p >= 1
    /\ p + IdLen - 1 <= Len(s)
    /\ s[p] \in UpperLetters
    /\ \A k \in 1..6 : s[p + k] \in Digits
    /\ s[p + 7] = "-"
    /\ \A k \in 8..10 : s[p + k] \in Digits

\* the pattern E\d{6}-\d{3} matches s at position p
MatchAt(s, p) ==
    /\ p >= 1
    /\ p + IdLen - 1 <= Len(s)
    /\ s[p] = "E"
    /\ \A k \in 1..6 : s[p + k] \in Digits
    /\ s[p + 7] = "-"
    /\ \A k \in 8..10 : s[p + k] \in Digits

\* re.search: the leftmost position where the pattern matches, 0 when none
re_search(s) ==
    IF \E p \in 1..Len(s) : MatchAt(s, p)
    THEN CHOOSE p \in 1..Len(s) :
            /\ MatchAt(s, p)
            /\ \A q \in 1..(p - 1) : ~MatchAt(s, q)
    ELSE 0

\* a mutant: with no match the whole input is taken for the identifier
convert_to_app_link_wraps(u) ==
    LET m == re_search(u)
    IN  IF m = 0 THEN DeepLinkPrefix \o u
        ELSE DeepLinkPrefix \o SubSeq(u, m, m + IdLen - 1)

convert_to_app_link(u) ==
    LET m == re_search(u)
    IN  IF m = 0 THEN u
        ELSE DeepLinkPrefix \o SubSeq(u, m, m + IdLen - 1)

----------------------------------------------------------------------------
(* Page extractor.                                                         *)

NameNotFound == "Name not found"

PriceNotFound == <<"P", "r", "i", "c", "e", " ", "n", "o", "t", " ", "f", "o", "u", "n", "d">>

\* Python's None for original_price; a present price t is <<t>>
None == <<>>

Some(t) == <<t>>

Whitespace == {" ", "\t", "\n"}

RECURSIVE lstrip(_)
lstrip(s) ==
    IF s # <<>> /\ Head(s) \in Whitespace THEN lstrip(Tail(s)) ELSE s

RECURSIVE rstrip(_)
rstrip(s) ==
    IF s # <<>> /\ s[Len(s)] \in Whitespace
    THEN rstrip(SubSeq(s, 1, Len(s) - 1))
    ELSE s

\* str.strip()
strip(s) == rstrip(lstrip(s))

\* a mutant: the snapshot stores the deep link in place of the query URL
initial_details_deep_link(product_url) ==
    [name |-> NameNotFound,
     current_price |-> PriceNotFound,
     is_on_sale |-> FALSE,
     original_price |-> None,
     url |-> convert_to_app_link(product_url)]

\* product_details as first built
initial_details(product_url) ==
    [name |-> NameNotFound,
     current_price |-> PriceNotFound,
     is_on_sale |-> FALSE,
     original_price |-> None,
     url |-> product_url]

\* a mutant: exactly two price elements are required
price_count_is_sale_exactly_two(n) == n = 2

\* the test of the sale branch on the number of price elements
price_count_is_sale(n) == n >= 2

\* reading .text of the elements the code reads raises (a stale handle)
price_text_raises(elems) ==
    IF price_count_is_sale(Len(elems))
    THEN ~elems[1].ok \/ ~elems[2].ok
    ELSE Len(elems) = 1 /\ ~elems[1].ok

\* a mutant: the sale flag is set before the second text is read
price_branch_flag_first(d, elems) ==
    IF price_count_is_sale(Len(elems))
    THEN IF ~elems[1].ok THEN d
         ELSE IF ~elems[2].ok THEN [d EXCEPT !.is_on_sale = TRUE]
         ELSE LET original_price_text == strip(elems[1].text)
                  sale_price_text == strip(elems[2].text)
              IN  IF original_price_text # <<>> /\ sale_price_text # <<>>
                  THEN [d EXCEPT !.is_on_sale = TRUE,
                                 !.original_price = Some(original_price_text),
                                 !.current_price = sale_price_text]
                  ELSE d
    ELSE IF Len(elems) = 1
         THEN IF elems[1].ok
              THEN [d EXCEPT !.current_price = strip(elems[1].text)]
              ELSE d
         ELSE d

\* the price branches: product_details after them, or as it stood when a
\* text read raised
price_branch(d, elems) ==
    IF price_count_is_sale(Len(elems))
    THEN IF ~elems[1].ok \/ ~elems[2].ok THEN d
         ELSE LET original_price_text == strip(elems[1].text)
                  sale_price_text == strip(elems[2].text)
              IN  IF original_price_text # <<>> /\ sale_price_text # <<>>
                  THEN [d EXCEPT !.is_on_sale = TRUE,
                                 !.original_price = Some(original_price_text),
                                 !.current_price = sale_price_text]
                  ELSE d
    ELSE IF Len(elems) = 1
         THEN IF elems[1].ok
              THEN [d EXCEPT !.current_price = strip(elems[1].text)]
              ELSE d
         ELSE d

\* the steps of the try block, in order; page.failAt names the one that raises
StepsBeforeTitle == {"get", "wait", "title_text"}

\* the step of the try block that raises, "none" when the block returns
raise_step(pg) ==
    IF pg.failAt # "none" THEN pg.failAt
    ELSE IF price_text_raises(pg.elems) THEN "price_text"
    ELSE "none"

\* the try block raised and the except clause ran
extraction_raises(pg) == raise_step(pg) # "none"

check_specific_item_price_selenium(product_url, pg) ==
    LET product_details == initial_details(product_url)
    IN  IF pg.failAt \in StepsBeforeTitle
        THEN product_details
        ELSE LET named == [product_details EXCEPT !.name = pg.title]
             IN  IF pg.failAt = "find_elements"
                 THEN named
                 ELSE price_branch(named, pg.elems)

----------------------------------------------------------------------------
(* Notifier.                                                               *)

BotTokenPlaceholder == "YOUR_BOT_TOKEN_HERE"

ChatIdPlaceholder == "YOUR_CHAT_ID_HERE"

\* a mutant: the send is skipped only when both credentials are placeholders
credentials_are_placeholders_both(token, chat_id) ==
    token = BotTokenPlaceholder /\ chat_id = ChatIdPlaceholder

\* the guard in front of the send path
credentials_are_placeholders(token, chat_id) ==
    token = BotTokenPlaceholder \/ chat_id = ChatIdPlaceholder

\* a mutant: only client errors raise
raise_for_status_raises_4xx(status) == 400 <= status /\ status < 500

\* response.raise_for_status() raises HTTPError: "bad status codes (4xx or 5xx)"
raise_for_status_raises(status) == 400 <= status /\ status < 600

\* the except clause of the send runs: requests.post raised a transport
\* error, or raise_for_status raised
send_fails(outcome) ==
    IF outcome.kind = "transport_error"
    THEN TRUE
    ELSE raise_for_status_raises(outcome.status)

\* what requests.post is given
post_request(token, chat_id, message) ==
    [api_url_token |-> token,
     payload |-> [chat_id |-> chat_id,
                  text |-> message,
                  parse_mode |-> "Markdown",
                  disable_web_page_preview |-> TRUE]]

\* send_telegram_notification: the POSTs it issues and the lines it prints
send_telegram_notification(token, chat_id, message, outcome) ==
    IF credentials_are_placeholders(token, chat_id)
    THEN [posts |-> <<>>, prints |-> <<"telegram_config_error">>]
    ELSE [posts |-> <<post_request(token, chat_id, message)>>,
          prints |-> IF send_fails(outcome)
                     THEN <<"telegram_send_error">>
                     ELSE <<"telegram_sent">>]

----------------------------------------------------------------------------
(* Orchestrator.                                                           *)

\* a mutant: every snapshot is kept
keep_item_any(d) == TRUE

\* the test in front of sale_items.append
keep_item(d) == d.is_on_sale

\* a mutant: the notification is compiled whatever sale_items holds
should_notify_always(items) == TRUE

\* the test "if sale_items:"
should_notify(items) == items # <<>>

\* one item block: the fields the f-string interpolates
detail_line(item) ==
    [name |-> item.name,
     current_price |-> item.current_price,
     original_price |-> item.original_price,
     app_link |-> convert_to_app_link(item.url)]

\* message_title and the joined message_details
final_message(items) ==
    [count |-> Len(items),
     details |-> [k \in 1..Len(items) |-> detail_line(items[k])]]

----------------------------------------------------------------------------
(* The inputs the model draws from.                                        *)

\* "https://www.uniqlo.com/id/id/products/"
WebPrefix ==
    <<"h", "t", "t", "p", "s", ":", "/", "/", "w", "w", "w", ".", "u", "n",
      "i", "q", "l", "o", ".", "c", "o", "m", "/", "i", "d", "/", "i", "d",
      "/", "p", "r", "o", "d", "u", "c", "t", "s", "/">>

\* "?colorCode=COL09"
QuerySuffix ==
    <<"?", "c", "o", "l", "o", "r", "C", "o", "d", "e", "=", "C", "O", "L",
      "0", "9">>

IdE1 == <<"E", "4", "7", "9", "1", "6", "9", "-", "0", "0", "0">>

IdE2 == <<"E", "4", "7", "4", "4", "3", "7", "-", "0", "0", "0">>

\* the configured URLs: a product page, and a page URL with no identifier
UrlPool ==
    {WebPrefix \o IdE1 \o QuerySuffix,
     WebPrefix}

Titles == {"AIRism Cotton Crew Neck T-Shirt"}

\* texts of price elements: empty, blank, padded, plain
PriceTexts ==
    {<<>>,
     <<" ">>,
     <<" ", "9", "0", " ">>,
     <<"1", "2", "0">>}

\* a price element: its text, or a handle whose .text raises
PriceElements ==
    {[ok |-> TRUE, text |-> x] : x \in PriceTexts}
        \cup {[ok |-> FALSE, text |-> <<>>]}

\* what the browser does for one call of the extractor
Pages ==
    {[failAt |-> s, title |-> "", elems |-> <<>>] : s \in StepsBeforeTitle}
        \cup {[failAt |-> "find_elements", title |-> x, elems |-> <<>>] : x \in Titles}
        \cup {[failAt |-> "none", title |-> x, elems |-> e] :
                 x \in Titles, e \in SeqsUpTo(PriceElements, MaxPriceElems)}

BotTokens == {BotTokenPlaceholder, "123456:ABC-DEF"}

ChatIds == {ChatIdPlaceholder, "987654321"}

\* the final status of the POST, or a transport error raised by requests.post
Outcomes ==
    {[kind |-> "response", status |-> s] :
        s \in {101, 200, 299, 304, 400, 499, 500, 599}}
        \cup {[kind |-> "transport_error", status |-> 0]}

NoPage == [failAt |-> "none", title |-> "", elems |-> <<>>]

NoResponse == [kind |-> "none", status |-> 0]

\* the pieces link transformer inputs are put together from
Segments ==
    {IdE1,
     IdE2,
     <<"A", "4", "7", "9", "1", "6", "9", "-", "0", "0", "0">>,
     <<"e", "4", "7", "9", "1", "6", "9", "-", "0", "0", "0">>,
     <<"E", "4", "7", "9", "1", "6", "-", "0", "0", "0">>,
     <<"E", "4", "7", "9", "1", "6", "9", "_", "0", "0", "0">>,
     <<"E", "4", "7", "9", "1", "6", "9", "-", "0">>,
     <<"0", "0">>,
     <<"E", "4">>,
     WebPrefix,
     DeepLinkPrefix,
     QuerySuffix}

RECURSIVE Concat(_)
Concat(ss) == IF ss = <<>> THEN <<>> ELSE Head(ss) \o Concat(Tail(ss))

LinkInputs == {Concat(ss) : ss \in SeqsUpTo(Segments, MaxSegs)}

----------------------------------------------------------------------------
(* One run of main.                                                        *)

Init ==
    /\ PRODUCT_URLS \in SeqsUpTo(UrlPool, MaxUrls)
    /\ TELEGRAM_BOT_TOKEN \in BotTokens
    /\ TELEGRAM_CHAT_ID \in ChatIds
    /\ pc = "start"
    /\ i = 0
    /\ sale_items = <<>>
    /\ driver = "none"
    /\ page = NoPage
    /\ item_details = initial_details(<<>>)
    /\ raised = "none"
    /\ returned = <<>>
    /\ calls = <<>>
    /\ posts = <<>>
    /\ response = NoResponse
    /\ log = <<>>
    /\ web_url = <<>>
    /\ link_out = <<>>
    /\ link_out2 = <<>>
    /\ lpc = "off"

\* the start-up print and webdriver.Chrome(...) returning a session
StartDriver ==
    /\ pc = "start"
    /\ log' = Append(log, "start")
    /\ driver' = "acquired"
    /\ pc' = "loop"
    /\ UNCHANGED <<PRODUCT_URLS, TELEGRAM_BOT_TOKEN, TELEGRAM_CHAT_ID, i,
                   sale_items, page, item_details, raised, returned, calls,
                   posts, response>>
    /\ UNCHANGED linkVars

\* webdriver.Chrome(...) raises: nothing catches it, main ends
StartDriverFails ==
    /\ pc = "start"
    /\ log' = Append(log, "start")
    /\ pc' = "raised"
    /\ UNCHANGED <<PRODUCT_URLS, TELEGRAM_BOT_TOKEN, TELEGRAM_CHAT_ID, i,
                   sale_items, driver, page, item_details, raised, returned,
                   calls, posts, response>>
    /\ UNCHANGED linkVars

\* one iteration of the loop up to the sleep: the extractor call and the append
CheckItem ==
    /\ pc = "loop"
    /\ i < Len(PRODUCT_URLS)
    /\ \E pg \in Pages :
        LET url == PRODUCT_URLS[i + 1]
            d == check_specific_item_price_selenium(url, pg)
        IN  /\ item_details' = d
            /\ raised' = raise_step(pg)
            /\ returned' = Append(returned, d)
            /\ sale_items' = IF keep_item(d) THEN Append(sale_items, d)
                             ELSE sale_items
            /\ log' = log \o <<"checking">>
                          \o (IF extraction_raises(pg) THEN <<"item_error">>
                              ELSE <<>>)
    /\ pc' = "sleep"
    /\ UNCHANGED <<PRODUCT_URLS, TELEGRAM_BOT_TOKEN, TELEGRAM_CHAT_ID, i, driver,
                   page, calls, posts, response>>
    /\ UNCHANGED linkVars

\* time.sleep(2) returns and the loop advances
Sleep ==
    /\ pc = "sleep"
    /\ i' = i + 1
    /\ pc' = "loop"
    /\ UNCHANGED <<PRODUCT_URLS, TELEGRAM_BOT_TOKEN, TELEGRAM_CHAT_ID, sale_items,
                   driver, page, item_details, raised, returned, calls, posts,
                   response, log>>
    /\ UNCHANGED linkVars

\* an exception the loop body does not catch (KeyboardInterrupt during the
\* sleep or an extractor call, a failing print): the loop has no try/finally,
\* so it leaves main at once
LoopRaises ==
    /\ pc \in {"loop", "sleep"}
    /\ i < Len(PRODUCT_URLS)
    /\ pc' = "raised"
    /\ UNCHANGED <<PRODUCT_URLS, TELEGRAM_BOT_TOKEN, TELEGRAM_CHAT_ID, i,
                   sale_items, driver, page, item_details, raised, returned,
                   calls, posts, response, log>>
    /\ UNCHANGED linkVars

\* the loop is exhausted: driver.quit()
Quit ==
    /\ pc = "loop"
    /\ i = Len(PRODUCT_URLS)
    /\ driver' = "released"
    /\ pc' = "report"
    /\ UNCHANGED <<PRODUCT_URLS, TELEGRAM_BOT_TOKEN, TELEGRAM_CHAT_ID, i,
                   sale_items, page, item_details, raised, returned, calls,
                   posts, response, log>>
    /\ UNCHANGED linkVars

\* the "if sale_items:" branch: compile the message and call the notifier
Notify ==
    /\ pc = "report"
    /\ should_notify(sale_items)
    /\ \E outcome \in Outcomes :
        LET message == final_message(sale_items)
            sent == send_telegram_notification(TELEGRAM_BOT_TOKEN,
                                               TELEGRAM_CHAT_ID, message, outcome)
        IN  /\ calls' = Append(calls, message)
            /\ posts' = posts \o sent.posts
            /\ response' = IF sent.posts = <<>> THEN response ELSE outcome
            /\ log' = log \o <<"found">> \o sent.prints
    /\ pc' = "finish"
    /\ UNCHANGED <<PRODUCT_URLS, TELEGRAM_BOT_TOKEN, TELEGRAM_CHAT_ID, i,
                   sale_items, driver, page, item_details, raised, returned>>
    /\ UNCHANGED linkVars

\* the else branch
NoSale ==
    /\ pc = "report"
    /\ ~should_notify(sale_items)
    /\ log' = Append(log, "no_sale")
    /\ pc' = "finish"
    /\ UNCHANGED <<PRODUCT_URLS, TELEGRAM_BOT_TOKEN, TELEGRAM_CHAT_ID, i,
                   sale_items, driver, page, item_details, raised, returned,
                   calls, posts, response>>
    /\ UNCHANGED linkVars

\* the closing print; main returns
Complete ==
    /\ pc = "finish"
    /\ log' = Append(log, "complete")
    /\ pc' = "done"
    /\ UNCHANGED <<PRODUCT_URLS, TELEGRAM_BOT_TOKEN, TELEGRAM_CHAT_ID, i,
                   sale_items, driver, page, item_details, raised, returned,
                   calls, posts, response>>
    /\ UNCHANGED linkVars

Next ==
    \/ StartDriver
    \/ StartDriverFails
    \/ CheckItem
    \/ Sleep
    \/ LoopRaises
    \/ Quit
    \/ Notify
    \/ NoSale
    \/ Complete

Spec == Init /\ [][Next]_vars

----------------------------------------------------------------------------
(* The link transformer on its own: convert_to_app_link applied to an      *)
(* input string, then to its own result.                                   *)

InitLink ==
    /\ PRODUCT_URLS = <<>>
    /\ TELEGRAM_BOT_TOKEN = BotTokenPlaceholder
    /\ TELEGRAM_CHAT_ID = ChatIdPlaceholder
    /\ pc = "off"
    /\ i = 0
    /\ sale_items = <<>>
    /\ driver = "none"
    /\ page = NoPage
    /\ item_details = initial_details(<<>>)
    /\ raised = "none"
    /\ returned = <<>>
    /\ calls = <<>>
    /\ posts = <<>>
    /\ response = NoResponse
    /\ log = <<>>
    /\ web_url \in LinkInputs
    /\ link_out = <<>>
    /\ link_out2 = <<>>
    /\ lpc = "input"

Convert ==
    /\ lpc = "input"
    /\ link_out' = convert_to_app_link(web_url)
    /\ lpc' = "once"
    /\ UNCHANGED <<web_url, link_out2>>
    /\ UNCHANGED mainVars

ConvertAgain ==
    /\ lpc = "once"
    /\ link_out2' = convert_to_app_link(link_out)
    /\ lpc' = "twice"
    /\ UNCHANGED <<web_url, link_out>>
    /\ UNCHANGED mainVars

NextLink ==
    \/ Convert
    \/ ConvertAgain

SpecLink == InitLink /\ [][NextLink]_vars

----------------------------------------------------------------------------
(* The page extractor on its own: one call on a query URL and a page.      *)

InitExtract ==
    /\ PRODUCT_URLS \in {<<u>> : u \in UrlPool}
    /\ TELEGRAM_BOT_TOKEN = BotTokenPlaceholder
    /\ TELEGRAM_CHAT_ID = ChatIdPlaceholder
    /\ pc = "extract"
    /\ i = 0
    /\ sale_items = <<>>
    /\ driver = "acquired"
    /\ page \in Pages
    /\ item_details = initial_details(<<>>)
    /\ raised = "none"
    /\ returned = <<>>
    /\ calls = <<>>
    /\ posts = <<>>
    /\ response = NoResponse
    /\ log = <<>>
    /\ web_url = <<>>
    /\ link_out = <<>>
    /\ link_out2 = <<>>
    /\ lpc = "off"

ExtractCall ==
    /\ pc = "extract"
    /\ item_details' = check_specific_item_price_selenium(PRODUCT_URLS[i + 1], page)
    /\ raised' = raise_step(page)
    /\ pc' = "extracted"
    /\ UNCHANGED <<PRODUCT_URLS, TELEGRAM_BOT_TOKEN, TELEGRAM_CHAT_ID, i,
                   sale_items, driver, page, returned, calls, posts, response,
                   log>>
    /\ UNCHANGED linkVars

NextExtract == ExtractCall

SpecExtract == InitExtract /\ [][NextExtract]_vars

----------------------------------------------------------------------------
(* The claims.                                                             *)

SaleFlagged(snapshots) == SelectSeq(snapshots, LAMBDA d : d.is_on_sale)

Printed(tag) == \E k \in 1..Len(log) : log[k] = tag

LastOf(q) == q[Len(q)]

\* the deep link of a snapshot, from the product identifier in its own url
IdE1Url == WebPrefix \o IdE1 \o QuerySuffix

\* C1: when main completes and some extracted snapshot is sale-flagged, the
\* notifier was invoked exactly once, and its message holds one block for each
\* sale-flagged snapshot and no other, in the order of PRODUCT_URLS, each with
\* the deep link derived from that snapshot's own url.
C1_NotifiedOnceInOrder ==
    (pc = "done" /\ SaleFlagged(returned) # <<>>) =>
        LET flagged == SaleFlagged(returned)
        IN  /\ Len(returned) = Len(PRODUCT_URLS)
            /\ \A k \in 1..Len(returned) : returned[k].url = PRODUCT_URLS[k]
            /\ Len(calls) = 1
            /\ calls[1].count = Len(flagged)
            /\ Len(calls[1].details) = Len(flagged)
            /\ \A k \in 1..Len(flagged) :
                /\ calls[1].details[k].name = flagged[k].name
                /\ calls[1].details[k].current_price = flagged[k].current_price
                /\ calls[1].details[k].original_price = flagged[k].original_price
                /\ calls[1].details[k].app_link
                       = (IF \E q \in 1..(Len(flagged[k].url) - IdLen + 1) :
                                SubSeq(flagged[k].url, q, q + IdLen - 1) = IdE1
                          THEN DeepLinkPrefix \o IdE1
                          ELSE flagged[k].url)

\* C1 witness: a run of two queries, the first not on sale and the second on
\* sale, ends with one call whose single block links to the second product.
C1_Witness ==
    /\ pc = "done"
    /\ Len(returned) = 2
    /\ ~returned[1].is_on_sale
    /\ returned[2].is_on_sale
    /\ returned[2].url = IdE1Url
    /\ Len(calls) = 1
    /\ Len(calls[1].details) = 1
    /\ calls[1].details[1].app_link = DeepLinkPrefix \o IdE1

\* a text is empty after trimming
IsBlank(x) == \A k \in 1..Len(x) : x[k] \in Whitespace

\* the extractor harness called on a page whose title was located and whose
\* price elements all gave their text
TitleAndTextsRead ==
    /\ pc = "extracted"
    /\ page.failAt = "none"
    /\ \A k \in 1..Len(page.elems) : page.elems[k].ok

\* C2 as stated: is_on_sale holds exactly when the page yields two price
\* elements, both non-empty after trimming; three or more elements never
\* produce is_on_sale.
C2_SaleOnlyWithExactlyTwo ==
    TitleAndTextsRead =>
        (item_details.is_on_sale <=>
            (/\ Len(page.elems) = 2
             /\ ~IsBlank(page.elems[1].text)
             /\ ~IsBlank(page.elems[2].text)))

\* C2 amended: is_on_sale holds exactly when the page yields at least two
\* price elements and the first two texts are non-empty after trimming; then
\* original_price is the first trimmed text and current_price the second.
\* One element: current_price is its trimmed text, no sale, no original
\* price.  No element, or a blank text among the first two: the placeholder
\* price, no sale.
C2_SaleWithAtLeastTwo ==
    TitleAndTextsRead =>
        LET n == Len(page.elems)
            twoTexts == /\ n >= 2
                        /\ ~IsBlank(page.elems[1].text)
                        /\ ~IsBlank(page.elems[2].text)
        IN  /\ item_details.is_on_sale <=> twoTexts
            /\ twoTexts =>
                /\ item_details.original_price = <<strip(page.elems[1].text)>>
                /\ item_details.current_price = strip(page.elems[2].text)
            /\ n = 1 =>
                /\ item_details.current_price = strip(page.elems[1].text)
                /\ item_details.original_price = <<>>
            /\ (n = 0 \/ (n >= 2 /\ ~twoTexts)) =>
                /\ item_details.current_price = PriceNotFound
                /\ item_details.original_price = <<>>
            /\ item_details.name = page.title

\* C2 witness: three price elements, the first two with text, give a sale
\* snapshot whose prices are the trimmed first and second texts.
C2_Witness ==
    /\ TitleAndTextsRead
    /\ Len(page.elems) = 3
    /\ page.elems[1].text = <<"1", "2", "0">>
    /\ page.elems[2].text = <<" ", "9", "0", " ">>
    /\ item_details.is_on_sale
    /\ item_details.original_price = <<<<"1", "2", "0">>>>
    /\ item_details.current_price = <<"9", "0">>

\* the snapshot the extractor starts from, for the query URL u
PlaceholderSnapshot(u) ==
    [name |-> "Name not found",
     current_price |-> PriceNotFound,
     is_on_sale |-> FALSE,
     original_price |-> <<>>,
     url |-> u]

\* main has just called the extractor on PRODUCT_URLS[i + 1] and it raised
ExtractionJustFailed == pc = "sleep" /\ raised # "none"

\* C3 as stated: whichever step fails, the call returns the placeholder
\* snapshot, name included.
C3_FailureGivesPlaceholder ==
    ExtractionJustFailed => item_details = PlaceholderSnapshot(PRODUCT_URLS[i + 1])

\* C3 amended: a failing call raises nothing to main and returns a snapshot
\* with the placeholder price, is_on_sale false, no original price and the
\* input URL; its name is the placeholder name when the failure is in the
\* navigation, the wait for the title or the read of the title text, and the
\* title text already read when the failure is in the price-element query or
\* in reading a price text.  The failure is logged, the item is not in the
\* sale report, and the loop goes on.
C3_FailureGivesDegradedSnapshot ==
    ExtractionJustFailed =>
        LET ph == PlaceholderSnapshot(PRODUCT_URLS[i + 1])
        IN  /\ raised \in {"get", "wait", "title_text"} => item_details = ph
            /\ raised \in {"find_elements", "price_text"} =>
                /\ item_details.name \in Titles
                /\ item_details = [ph EXCEPT !.name = item_details.name]
            /\ LastOf(returned) = item_details
            /\ LastOf(log) = "item_error"
            /\ sale_items = SaleFlagged(returned)
            /\ Len(returned) = i + 1

\* C3 witness: a price text read raises after the title was read.
C3_Witness ==
    /\ ExtractionJustFailed
    /\ raised = "price_text"
    /\ item_details.name \in Titles
    /\ i = 1
    /\ Len(sale_items) = 1

\* C4: a run that started the browser session has released it when it ends.
C4_SessionReleasedAtEnd ==
    (pc \in {"done", "raised"} /\ driver # "none") => driver = "released"

\* the POST was answered with a 2xx status
Answered2xx ==
    /\ response.kind = "response"
    /\ 200 <= response.status
    /\ response.status <= 299

\* the POST was answered with a 4xx or 5xx status
Answered4xx5xx ==
    /\ response.kind = "response"
    /\ 400 <= response.status
    /\ response.status <= 599

\* C5 as stated: a POST is treated as delivered exactly when its status is 2xx.
C5_DeliveredIffStatus2xx ==
    posts # <<>> =>
        /\ Printed("telegram_sent") <=> Answered2xx
        /\ Printed("telegram_send_error") <=> ~Answered2xx

\* C5 amended: a POST is treated as a delivery failure exactly when
\* requests.post raises a transport error or the status is 4xx or 5xx: then
\* the failure diagnostic is printed and the success message is not.  Every
\* other status (1xx, 2xx, 3xx) is treated as delivered.
C5_FailedIffErrorOr4xx5xx ==
    posts # <<>> =>
        LET failed == response.kind = "transport_error" \/ Answered4xx5xx
        IN  /\ Printed("telegram_send_error") <=> failed
            /\ Printed("telegram_sent") <=> ~failed
            /\ pc \in {"finish", "done"}

\* C5 witness: a 5xx answer is logged as a failure and the run completes.
C5_Witness ==
    /\ pc = "done"
    /\ posts # <<>>
    /\ response.kind = "response"
    /\ response.status = 599
    /\ Printed("telegram_send_error")
    /\ ~Printed("telegram_sent")
    /\ LastOf(log) = "complete"

\* the bot token or the chat target still has its placeholder value
SomePlaceholder ==
    \/ TELEGRAM_BOT_TOKEN = "YOUR_BOT_TOKEN_HERE"
    \/ TELEGRAM_CHAT_ID = "YOUR_CHAT_ID_HERE"

\* C6: with a placeholder credential no POST is ever issued; a call of the
\* notifier prints the configuration diagnostic, prints neither the success
\* nor the delivery-failure line, raises nothing, and main goes on to its
\* completion message.
C6_PlaceholderNeverPosts ==
    SomePlaceholder =>
        /\ posts = <<>>
        /\ response = NoResponse
        /\ calls # <<>> =>
            /\ Printed("telegram_config_error")
            /\ ~Printed("telegram_sent")
            /\ ~Printed("telegram_send_error")
            /\ pc \in {"finish", "done"}
        /\ pc = "finish" => ENABLED Complete
        /\ pc = "done" => LastOf(log) = "complete"

\* C6 witness: only the chat target is a placeholder, the notifier was called,
\* and the run completed.
C6_Witness ==
    /\ TELEGRAM_BOT_TOKEN # "YOUR_BOT_TOKEN_HERE"
    /\ TELEGRAM_CHAT_ID = "YOUR_CHAT_ID_HERE"
    /\ calls # <<>>
    /\ posts = <<>>
    /\ pc = "done"

\* C7: while the loop runs nothing is sent; a run posts at most once and calls
\* the notifier at most once; with no sale-flagged snapshot the notifier is
\* never called and nothing is posted.
C7_NoSendMidLoopOrWithoutSale ==
    /\ pc \in {"start", "loop", "sleep", "raised"} => (calls = <<>> /\ posts = <<>>)
    /\ Len(posts) <= 1
    /\ Len(calls) <= 1
    /\ SaleFlagged(returned) = <<>> => (calls = <<>> /\ posts = <<>>)
    /\ calls # <<>> => Len(returned) = Len(PRODUCT_URLS)

\* C7 witness: a completed run with real credentials in which every
\* extraction failed, and nothing was sent.
C7_Witness ==
    /\ pc = "done"
    /\ ~SomePlaceholder
    /\ Len(returned) = 2
    /\ \A k \in 1..Len(returned) : returned[k].name = "Name not found"
    /\ calls = <<>>
    /\ posts = <<>>
    /\ Printed("no_sale")

\* C8: every snapshot the extractor returns has an original price exactly when
\* it is sale-flagged, and its url is the query URL the call was given.
C8_OriginalPriceIffSaleAndUrlKept ==
    pc = "extracted" =>
        /\ (item_details.original_price # <<>>) <=> item_details.is_on_sale
        /\ item_details.url = PRODUCT_URLS[1]

\* C8 witness: a sale snapshot for a URL whose deep link differs from it.
C8_Witness ==
    /\ pc = "extracted"
    /\ item_details.is_on_sale
    /\ item_details.original_price # <<>>
    /\ PRODUCT_URLS[1] = IdE1Url
    /\ item_details.url = IdE1Url

\* the shape <letter>dddddd-ddd, its first character drawn from letters,
\* is in x at position p
ShapeAt(x, p, letters) ==
    /\ p + 10 <= Len(x)
    /\ x[p] \in letters
    /\ \A k \in 1..6 : x[p + k] \in Digits
    /\ x[p + 7] = "-"
    /\ \A k \in 8..10 : x[p + k] \in Digits

HasShape(x, letters) == \E p \in 1..Len(x) : ShapeAt(x, p, letters)

\* the leftmost substring of x of that shape
FirstShape(x, letters) ==
    LET p == CHOOSE q \in 1..Len(x) :
                /\ ShapeAt(x, q, letters)
                /\ \A r \in 1..(q - 1) : ~ShapeAt(x, r, letters)
    IN  SubSeq(x, p, p + 10)

\* the result the link transformer owes for x when identifiers start with
\* one of letters
OwedLink(x, letters) ==
    IF HasShape(x, letters)
    THEN DeepLinkPrefix \o FirstShape(x, letters)
    ELSE x

\* C9 as stated: the identifier starts with any uppercase letter.
C9_AnyUppercaseLetter ==
    lpc # "input" => link_out = OwedLink(web_url, UpperLetters)

\* C9 amended: convert_to_app_link(u) is the fixed deep-link prefix followed
\* by the leftmost substring of u of the shape E, six digits, a hyphen, three
\* digits, whenever u has one, and u unchanged otherwise.
C9_LetterE ==
    lpc # "input" => link_out = OwedLink(web_url, {"E"})

\* C9 witness: an identifier starting with A is passed over and the
\* identifier starting with E after it is the one linked.
C9_Witness ==
    /\ lpc = "once"
    /\ web_url = <<"A", "4", "7", "9", "1", "6", "9", "-", "0", "0", "0">> \o IdE2
    /\ link_out = DeepLinkPrefix \o IdE2

\* C10: convert_to_app_link applied to its own result returns that result, and
\* a string with no match for the pattern is returned unchanged.
C10_Idempotent ==
    /\ lpc = "twice" => link_out2 = link_out
    /\ (lpc # "input" /\ ~HasShape(web_url, {"E"})) => link_out = web_url

\* C10 witness: an input that was rewritten, and whose deep link is then
\* mapped to itself.
C10_Witness ==
    /\ lpc = "twice"
    /\ link_out # web_url
    /\ Len(web_url) > IdLen
    /\ link_out2 = link_out

====
